---- MODULE Spec2Model ----
(***************************************************************************)
(* A model of packages/toolpad-app/src/server/localMode.ts: the mapping    *)
(* between the application tree (AppDom) and the files of a project        *)
(* folder, the mtime fingerprint, the chained-promise Lock, and the        *)
(* ToolpadProject gateway (loadDom, saveDom, applyDomDiff, the watcher's   *)
(* updateDomFromExternal).                                                 *)
(*                                                                         *)
(* JavaScript runs one macrotask at a time; every await of an I/O call is  *)
(* a suspension point.  An action of the model is one run-to-completion    *)
(* stretch of code between two suspension points.  Promise reactions       *)
(* (microtasks) run before any other macrotask: the actions that model     *)
(* them are urgent, every other action waits for them.                     *)
(***************************************************************************)
EXTENDS Integers, Sequences, FiniteSets, TLC

(***************************************************************************)
(* Bounds of the model.                                                    *)
(***************************************************************************)
\* the number of gateway calls (loadDom, saveDom, applyDomDiff) and watcher
\* reconciliations of one run
MaxOps == 3
\* the same, in the runs that follow single calls and leave out failing writes
MaxCalls == 2
\* the number of edits made to the project folder by other programs
MaxExt == 1
\* the same, in the runs of the watcher alone
MaxBurst == 2
\* the number of file writes that fail with an I/O error
MaxFail == 1
\* the number of code component nodes of a tree given to
\* mergeComponentsContentIntoDom
MaxNodes == 2

OpIds == 1..MaxOps

(***************************************************************************)
(* The project folder.                                                     *)
(*   toolpad/pages/<name>/page.yml, toolpad/theme.yml,                     *)
(*   toolpad/components/<name>.tsx                                         *)
(* A file is [exists, content, mtime].  The content of a page.yml is what  *)
(* yaml.parse and pageSchema.safeParse make of it: "malformed" (yaml.parse *)
(* throws), "invalid" (the schema rejects it), "empty" (readMaybeFile      *)
(* gives an empty string) or a page document.                              *)
(* The code only ever compares the mtimeMs of one path with an earlier     *)
(* mtimeMs of the same path, so the mtime of a path is the number of       *)
(* writes the path has seen: two writes never share a millisecond.         *)
(***************************************************************************)
PageNames == {"a", "b"}
\* the order in which readdir lists the page folders
PageDirOrder == <<"a", "b">>
CompNames == {"c"}
CompDirOrder == <<"c">>

NoPage == [kind |-> "none", id |-> 0, title |-> "", content |-> <<>>, queries |-> <<>>]
MalformedPage == [NoPage EXCEPT !.kind = "malformed"]
InvalidPage == [NoPage EXCEPT !.kind = "invalid"]
EmptyPage == [NoPage EXCEPT !.kind = "empty"]
PageDoc(id, title, content, queries) ==
    [kind |-> "page", id |-> id, title |-> title, content |-> content, queries |-> queries]

NoTheme == [kind |-> "none", options |-> ""]
MalformedTheme == [kind |-> "malformed", options |-> ""]
InvalidTheme == [kind |-> "invalid", options |-> ""]
ThemeDoc(options) == [kind |-> "theme", options |-> options]

NoPageFile == [exists |-> FALSE, content |-> NoPage, mtime |-> 0]
NoThemeFile == [exists |-> FALSE, content |-> NoTheme, mtime |-> 0]
NoCompFile == [exists |-> FALSE, content |-> "", mtime |-> 0]
File(content, mtime) == [exists |-> TRUE, content |-> content, mtime |-> mtime]
\* the file f after a write of content, and after its removal
Written(f, content) == File(content, f.mtime + 1)
Removed(f, nothing) == [exists |-> FALSE, content |-> nothing, mtime |-> f.mtime]

EmptyDisk ==
    [pages |-> [n \in PageNames |-> NoPageFile],
     theme |-> NoThemeFile,
     comps |-> [n \in CompNames |-> NoCompFile]]

(***************************************************************************)
(* The tree.  The slots of the root node are sequences in parentIndex      *)
(* order; a page node carries its "children" and "queries" slots.  Element *)
(* and query nodes get fresh ids on every load, so the model gives them    *)
(* none: two trees are equal here when they are equal up to those ids and  *)
(* up to the literal parentIndex values.                                   *)
(***************************************************************************)
createDom == [pages |-> <<>>, themes |-> <<>>, codeComponents |-> <<>>]

PageNode(id, name, title, children, queries) ==
    [id |-> id, name |-> name, title |-> title, children |-> children, queries |-> queries]

\* the dataSource of a query node without one
NoDataSource == "none"
QueryKinds == {"local", "rest"}

RECURSIVE SeqMap(_, _)
SeqMap(F(_), s) == IF s = <<>> THEN <<>> ELSE <<F(Head(s))>> \o SeqMap(F, Tail(s))

\* appDom.removeNode for a child of the root: the subtree goes with it
removeNode(dom, id) ==
    [dom EXCEPT !.pages = SelectSeq(dom.pages, LAMBDA p : p.id # id)]

\* appDom.getMaybeNode for the id of a page
getMaybeNode(dom, id) == \E k \in 1..Len(dom.pages) : dom.pages[k].id = id

(***************************************************************************)
(* Load: files -> tree.                                                    *)
(***************************************************************************)
\* the entries of PagesContent, in readdir order: a page folder whose file is
\* missing, empty, malformed or schema-invalid gives no entry
\* pageSchema.safeParse(parsedFile).success: the document has the shape of a
\* page and every tag of its queries (the kind of the query, of its body, of
\* its response: one tag here) is one of the closed set of the schema
pageSchema(doc) ==
    /\ doc.kind = "page"
    /\ \A k \in 1..Len(doc.queries) : doc.queries[k].kind \in QueryKinds \cup {NoDataSource}

\* loadPagesFromFiles were pageSchema to let any tag through
RECURSIVE loadPagesFromUnchecked(_, _)
loadPagesFromUnchecked(d, order) ==
    IF order = <<>> THEN <<>>
    ELSE LET name == Head(order)
             f == d.pages[name]
             rest == loadPagesFromUnchecked(d, Tail(order))
         IN IF f.exists /\ f.content.kind = "page"
            THEN <<[name |-> name, page |-> f.content]>> \o rest
            ELSE rest

RECURSIVE loadPagesFrom(_, _)
loadPagesFrom(d, order) ==
    IF order = <<>> THEN <<>>
    ELSE LET name == Head(order)
             f == d.pages[name]
             rest == loadPagesFrom(d, Tail(order))
         IN IF f.exists /\ pageSchema(f.content)
            THEN <<[name |-> name, page |-> f.content]>> \o rest
            ELSE rest

loadPagesFromFiles(d) == loadPagesFrom(d, PageDirOrder)

\* yaml.parse of the theme file is outside any try: a malformed file throws
loadThemeFromFile(d) ==
    IF d.theme.exists /\ d.theme.content.kind # "empty"
    THEN CASE d.theme.content.kind = "malformed" -> [ok |-> FALSE, theme |-> NoTheme]
           [] d.theme.content.kind = "theme" -> [ok |-> TRUE, theme |-> d.theme.content]
           [] OTHER -> [ok |-> TRUE, theme |-> NoTheme]
    ELSE [ok |-> TRUE, theme |-> NoTheme]

RECURSIVE loadComponentsFrom(_, _)
loadComponentsFrom(d, order) ==
    IF order = <<>> THEN <<>>
    ELSE LET name == Head(order)
             rest == loadComponentsFrom(d, Tail(order))
         IN IF d.comps[name].exists
            THEN <<[name |-> name, code |-> d.comps[name].content]>> \o rest
            ELSE rest

loadCodeComponentsFromFiles(d) == loadComponentsFrom(d, CompDirOrder)

readProjectFolder(d) ==
    [ok |-> loadThemeFromFile(d).ok,
     pages |-> loadPagesFromFiles(d),
     components |-> loadCodeComponentsFromFiles(d),
     theme |-> loadThemeFromFile(d).theme]

\* a query of a page file becomes a node only when it has a query config;
\* an unrecognized kind throws
QueryThrows(q) == q.kind # NoDataSource /\ q.kind \notin QueryKinds
createDomQueryFromPageFileQuery(q) == [name |-> q.name, dataSource |-> q.kind]

mergeElementIntoDom(elm) == [component |-> elm.component, name |-> elm.name]

\* createPageDomFromPageFile were it to draw the id of the page node afresh
\* instead of taking spec.id (0 stands for an id no file declares)
createPageDomFromPageFileFreshId(pageName, pageFile) ==
    PageNode(0, pageName, pageFile.title,
             SeqMap(mergeElementIntoDom, pageFile.content),
             SeqMap(createDomQueryFromPageFileQuery,
                    SelectSeq(pageFile.queries, LAMBDA q : q.kind # NoDataSource)))

createPageDomFromPageFile(pageName, pageFile) ==
    PageNode(pageFile.id, pageName, pageFile.title,
             SeqMap(mergeElementIntoDom, pageFile.content),
             SeqMap(createDomQueryFromPageFileQuery,
                    SelectSeq(pageFile.queries, LAMBDA q : q.kind # NoDataSource)))

PageFileThrows(pageFile) == \E k \in 1..Len(pageFile.queries) : QueryThrows(pageFile.queries[k])

\* mergePageIntoDom were it to add the page whatever is in the tree
mergePageIntoDomKeep(dom, pageName, pageFile) ==
    [dom EXCEPT !.pages = Append(dom.pages, createPageDomFromPageFile(pageName, pageFile))]

\* a page node with the id of a node already merged replaces it
mergePageIntoDom(dom, pageName, pageFile) ==
    LET newPageNode == createPageDomFromPageFile(pageName, pageFile)
        dom1 == IF getMaybeNode(dom, newPageNode.id) THEN removeNode(dom, newPageNode.id) ELSE dom
    IN [dom1 EXCEPT !.pages = Append(dom1.pages, newPageNode)]

RECURSIVE mergePagesIntoDom(_, _)
mergePagesIntoDom(dom, pages) ==
    IF pages = <<>> THEN dom
    ELSE mergePagesIntoDom(mergePageIntoDom(dom, Head(pages).name, Head(pages).page), Tail(pages))

\* the node the loop of mergeComponentsContentIntoDom leaves for node k of
\* nodes: codeComponentNodes.find gives the first node of a name, which is
\* given the code of the file of that name or, without such a file, removed;
\* a later node of the same name is never found
RECURSIVE upsertFrom(_, _, _)
upsertFrom(nodes, k, componentsContent) ==
    IF k > Len(nodes) THEN <<>>
    ELSE LET node == nodes[k]
             found == \A m \in 1..(k - 1) : nodes[m].name # node.name
             files == {c \in 1..Len(componentsContent) : componentsContent[c].name = node.name}
         IN (IF ~found THEN <<node>>
             ELSE IF files # {}
                  THEN <<[node EXCEPT !.code = componentsContent[CHOOSE c \in files : TRUE].code]>>
                  ELSE <<>>)
            \o upsertFrom(nodes, k + 1, componentsContent)

\* mergeComponentsContentIntoDom were it to leave the nodes without a file
mergeComponentsContentIntoDomNoRemove(dom, componentsContent) ==
    LET nodeNames == {dom.codeComponents[k].name : k \in 1..Len(dom.codeComponents)}
        added == SelectSeq(componentsContent, LAMBDA c : c.name \notin nodeNames)
    IN [dom EXCEPT !.codeComponents = dom.codeComponents \o added]

\* upsert by name over the names of the files and of the nodes: set the code
\* of the node found for a file, add a node for a file without one, remove
\* the node found for a name without a file
mergeComponentsContentIntoDom(dom, componentsContent) ==
    LET nodeNames == {dom.codeComponents[k].name : k \in 1..Len(dom.codeComponents)}
        added == SelectSeq(componentsContent, LAMBDA c : c.name \notin nodeNames)
    IN [dom EXCEPT !.codeComponents = upsertFrom(dom.codeComponents, 1, componentsContent) \o added]

mergeThemeIntoAppDom(dom, themeFile) ==
    [dom EXCEPT !.themes = Append(dom.themes, [theme |-> themeFile.options])]

projectFolderToAppDom(folder) ==
    LET dom1 == mergePagesIntoDom(createDom, folder.pages)
        dom2 == mergeComponentsContentIntoDom(dom1, folder.components)
    IN IF folder.theme.kind = "theme" THEN mergeThemeIntoAppDom(dom2, folder.theme) ELSE dom2

\* loadDomFromDisk: [ok, dom]; it throws when reading the folder throws or a
\* valid page file holds a query of an unrecognized kind
loadDomFromDisk(d) ==
    LET folder == readProjectFolder(d)
        throws == ~folder.ok
                  \/ \E k \in 1..Len(folder.pages) : PageFileThrows(folder.pages[k].page)
    IN IF throws THEN [ok |-> FALSE, dom |-> createDom]
       ELSE [ok |-> TRUE, dom |-> projectFolderToAppDom(folder)]

(***************************************************************************)
(* Save: tree -> files.                                                    *)
(***************************************************************************)
\* createPageFileQueryFromDomQuery throws on a dataSource it does not know
DomQueryThrows(q) == q.dataSource # NoDataSource /\ q.dataSource \notin QueryKinds
createPageFileQueryFromDomQuery(q) == [name |-> q.name, kind |-> q.dataSource]

expandElement(node) == [component |-> node.component, name |-> node.name]

\* expandFromDom of a page node: children and queries in parentIndex order
expandFromDom(node) ==
    PageDoc(node.id, node.title,
            SeqMap(expandElement, node.children),
            SeqMap(createPageFileQueryFromDomQuery, node.queries))

ExpandThrows(dom) ==
    \E k \in 1..Len(dom.pages) :
        \E q \in 1..Len(dom.pages[k].queries) : DomQueryThrows(dom.pages[k].queries[q])

\* pages[pageNode.name] = expandFromDom(pageNode): one entry per name, the
\* last page node of a name wins
extractPagesFromDom(dom) ==
    LET names == {dom.pages[k].name : k \in 1..Len(dom.pages)}
        last(n) == CHOOSE k \in 1..Len(dom.pages) :
                      /\ dom.pages[k].name = n
                      /\ \A m \in 1..Len(dom.pages) : dom.pages[m].name = n => m <= k
    IN [n \in names |-> expandFromDom(dom.pages[last(n)])]

extractThemeFromDom(dom) ==
    IF Len(dom.themes) > 0 THEN ThemeDoc(dom.themes[1].theme) ELSE NoTheme

\* the file operations writeDomToDisk starts, all at once (Promise.all):
\* updateYamlFile of every page file, and updateYamlFile or rm of the theme
\* file.  No operation touches the components folder or removes a page file.
PageJob(op, name, page) ==
    [op |-> op, target |-> "page", name |-> name, page |-> page, theme |-> NoTheme, code |-> ""]
ThemeJob(op, theme) ==
    [op |-> op, target |-> "theme", name |-> "", page |-> NoPage, theme |-> theme, code |-> ""]
CompJob(op, name, code) ==
    [op |-> op, target |-> "comp", name |-> name, page |-> NoPage, theme |-> NoTheme, code |-> code]

writePagesToFiles(op, pages) == {PageJob(op, n, pages[n]) : n \in DOMAIN pages}
\* writeThemeFile were it to do nothing for a tree without a theme node
writeThemeFileKeep(op, theme) == IF theme.kind = "theme" THEN {ThemeJob(op, theme)} ELSE {}
writeThemeFile(op, theme) == {ThemeJob(op, theme)}
\* writeCodeComponentsToFiles: only writeProjectFolder(root, folder, true)
\* calls it, and nothing calls that
writeCodeComponentsToFiles(op, components) ==
    {CompJob(op, components[k].name, components[k].code) : k \in 1..Len(components)}
\* writeDomToDisk were it to write the code components as well
writeDomToDiskWithComponents(op, dom) ==
    writePagesToFiles(op, extractPagesFromDom(dom))
        \cup writeThemeFile(op, extractThemeFromDom(dom))
        \cup writeCodeComponentsToFiles(op, dom.codeComponents)
writeDomToDisk(op, dom) ==
    writePagesToFiles(op, extractPagesFromDom(dom)) \cup writeThemeFile(op, extractThemeFromDom(dom))

\* the file operation of job w: updateYamlFile(path, content),
\* fs.rm(path, {force}) or writeFileRecursive(path, code)
updateYamlFile(d, w) ==
    IF w.target = "page"
    THEN [d EXCEPT !.pages[w.name] = Written(@, w.page)]
    ELSE IF w.target = "comp"
    THEN [d EXCEPT !.comps[w.name] = Written(@, w.code)]
    ELSE IF w.theme.kind = "theme"
         THEN [d EXCEPT !.theme = Written(@, w.theme)]
         ELSE [d EXCEPT !.theme = Removed(@, NoTheme)]

(***************************************************************************)
(* The fingerprint: the [file, mtimeMs] pairs of the files that match      *)
(* getDomFilePatterns, sorted by path.  insecureHash of their JSON text is *)
(* taken to be injective, so the fingerprint is the set of pairs.          *)
(***************************************************************************)
\* pages/*/page.yml and components/*.*; theme.yml matches neither pattern
getDomFilePatterns(d) ==
    {[file |-> <<"pages", n>>, mtime |-> d.pages[n].mtime] : n \in {m \in PageNames : d.pages[m].exists}}
    \cup
    {[file |-> <<"components", n>>, mtime |-> d.comps[n].mtime] : n \in {m \in CompNames : d.comps[m].exists}}

calculateDomFingerprint(d) == getDomFilePatterns(d)

\* whether the file of a write matches the patterns chokidar watches
Watched(target) == target \in {"page", "comp"}

getCodeComponentsFingerprint(dom) ==
    [isNull |-> FALSE, names |-> SeqMap(LAMBDA node : node.name, dom.codeComponents)]

(***************************************************************************)
(* appDom.applyDiff.  A diff is a list of operations on page nodes,        *)
(* applied all or nothing: it fails when an operation names a node that is *)
(* not in the tree, or adds a node whose id is in it.                      *)
(***************************************************************************)
DiffSetTitle(id, title) == [op |-> "setTitle", id |-> id, name |-> "", title |-> title]
DiffAddPage(id, name, title) == [op |-> "addPage", id |-> id, name |-> name, title |-> title]
DiffRemove(id) == [op |-> "remove", id |-> id, name |-> "", title |-> ""]

DiffOpOk(dom, o) ==
    IF o.op = "addPage" THEN ~getMaybeNode(dom, o.id) ELSE getMaybeNode(dom, o.id)

applyDiffOp(dom, o) ==
    CASE o.op = "setTitle" ->
           [dom EXCEPT !.pages = SeqMap(LAMBDA p : IF p.id = o.id THEN [p EXCEPT !.title = o.title] ELSE p,
                                        dom.pages)]
      [] o.op = "addPage" ->
           [dom EXCEPT !.pages = Append(dom.pages, PageNode(o.id, o.name, o.title, <<>>, <<>>))]
      [] OTHER -> removeNode(dom, o.id)

RECURSIVE applyDiff(_, _)
applyDiff(dom, diff) ==
    IF diff = <<>> THEN [ok |-> TRUE, dom |-> dom]
    ELSE IF ~DiffOpOk(dom, Head(diff)) THEN [ok |-> FALSE, dom |-> dom]
         ELSE LET r == applyDiff(applyDiffOp(dom, Head(diff)), Tail(diff))
              IN IF r.ok THEN r ELSE [ok |-> FALSE, dom |-> dom]

(***************************************************************************)
(* The state of a ToolpadProject and of its project folder.                *)
(***************************************************************************)
VARIABLES
    limit,      \* the bounds of this run: [ops, fail, ext]
    disposed,   \* dispose() has run
    dev,        \* options.dev
    started,    \* start() has run; the watcher runs when started /\ dev
    dirty,      \* the debounced updateDomFromExternal has a call waiting
    disk,       \* the project folder
    cache,      \* this.domAndFingerprint: null, the promise of the lazy load, or a pair
    loadP,      \* the promise of the lazy load: Promise.all([loadDomFromDisk, calculateDomFingerprint])
    pending,    \* domAndFingerprintLock.pending: 0 (null) or the operation whose promise it is
    ops,        \* the calls of loadDom, saveDom, applyDomDiff and of updateDomFromExternal
    nextOp,     \* the id the next call gets
    inflight,   \* the file operations started and not completed
    events,     \* what this.events emitted
    codeComponentsFingerprint,
    extCount,   \* edits made by other programs so far
    failCount,  \* writes failed so far
    loads,      \* how many times loadDomAndFingerprint read the disk
    ver,        \* how many times a pair replaced this.domAndFingerprint
    env,        \* process.env: the names that are defined
    alertedMissingVars,
    console,    \* the calls of alertOnMissingVariablesInDom: what was missing, what was logged
    merged      \* a call of mergeComponentsContentIntoDom: its arguments and its result

vars == <<limit, disposed, dev, started, dirty, disk, cache, loadP, pending, ops, nextOp, inflight,
          events, codeComponentsFingerprint, extCount, failCount, loads, ver,
          env, alertedMissingVars, console, merged>>
alertVars == <<env, alertedMissingVars, console>>

NoFingerprint == {}
NullCache == [tag |-> "null", dom |-> createDom, fp |-> NoFingerprint]
PromiseCache == [tag |-> "promise", dom |-> createDom, fp |-> NoFingerprint]
ValueCache(dom, fp) == [tag |-> "value", dom |-> dom, fp |-> fp]

NoLoad == [st |-> "none", hasDom |-> FALSE, hasFp |-> FALSE, dom |-> createDom, fp |-> NoFingerprint]

IdleOp ==
    [kind |-> "none", pc |-> "idle", pred |-> 0, diff |-> <<>>,
     dom |-> createDom, fp |-> NoFingerprint, loaded |-> FALSE, ver |-> 0,
     newDom |-> createDom, newFp |-> NoFingerprint, hasDom |-> FALSE, hasFp |-> FALSE,
     committed |-> FALSE, err |-> ""]

Event(type, fingerprint, by) ==
    [type |-> type, fingerprint |-> fingerprint, by |-> by]

\* the trees and diffs the callers of the gateway pass
HomePage == PageDoc(1, "Home", <<>>, <<>>)
SaveTrees ==
    {[createDom EXCEPT !.pages = <<PageNode(1, "a", "Saved", <<>>, <<>>)>>]}
Diffs ==
    {<<DiffSetTitle(1, "Edited")>>, <<DiffAddPage(2, "b", "New")>>}

\* the project folder initProject leaves: at least one valid page
InitDisk == [EmptyDisk EXCEPT !.pages["a"] = File(HomePage, 0)]

\* what other programs do to the project folder
ExtEdits ==
    {[target |-> "page", name |-> "b", remove |-> FALSE, page |-> PageDoc(2, "Ext", <<>>, <<>>),
      theme |-> NoTheme, code |-> ""],
     [target |-> "theme", name |-> "", remove |-> FALSE, page |-> NoPage,
      theme |-> ThemeDoc("dark"), code |-> ""],
     [target |-> "theme", name |-> "", remove |-> FALSE, page |-> NoPage,
      theme |-> MalformedTheme, code |-> ""],
     [target |-> "comp", name |-> "c", remove |-> FALSE, page |-> NoPage,
      theme |-> NoTheme, code |-> "src"]}

applyExtEdit(d, e) ==
    CASE e.target = "page" ->
           [d EXCEPT !.pages[e.name] = IF e.remove THEN Removed(@, NoPage) ELSE Written(@, e.page)]
      [] e.target = "theme" ->
           [d EXCEPT !.theme = IF e.remove THEN Removed(@, NoTheme) ELSE Written(@, e.theme)]
      [] OTHER ->
           [d EXCEPT !.comps[e.name] = IF e.remove THEN Removed(@, "") ELSE Written(@, e.code)]

\* no call of mergeComponentsContentIntoDom is followed
NoMerge == [done |-> TRUE, dom |-> createDom, components |-> <<>>, result |-> createDom]

\* a project just constructed by initProject, not yet started
Constructed ==
    /\ dev \in BOOLEAN
    /\ disposed = FALSE
    /\ started = FALSE
    /\ dirty = FALSE
    /\ cache = NullCache
    /\ loadP = NoLoad
    /\ pending = 0
    /\ ops = [i \in OpIds |-> IdleOp]
    /\ nextOp = 1
    /\ inflight = {}
    /\ events = <<>>
    /\ codeComponentsFingerprint = [isNull |-> TRUE, names |-> <<>>]
    /\ extCount = 0
    /\ failCount = 0
    /\ loads = 0
    /\ ver = 0
    /\ env = {}
    /\ alertedMissingVars = {}
    /\ console = <<>>

Init ==
    /\ limit = [ops |-> MaxOps, fail |-> MaxFail, ext |-> MaxExt, vars |-> <<>>]
    /\ disk = InitDisk
    /\ merged = NoMerge
    /\ Constructed

(***************************************************************************)
(* Lock.use:                                                               *)
(*   this.pending = Promise.resolve(this.pending).then(() => doWork());    *)
(*   return await this.pending;   finally { this.pending = null; }         *)
(* The promise of operation i settles when its doWork does, or rejects     *)
(* without running doWork when the promise it was chained on rejected.     *)
(***************************************************************************)
Locked(i) == ops[i].kind \in {"save", "diff", "recon"}
Settled(i) == ops[i].pc \in {"done", "failed"}
\* doWork of i is running: its critical section
InCS(i) == Locked(i) /\ ops[i].pc \in {"await", "write", "fp1", "reload"}

\* the reaction () => doWork() of a queued call is due
Startable(i) ==
    /\ ops[i].pc = "queued"
    /\ IF ops[i].pred = 0 THEN TRUE ELSE Settled(ops[i].pred)
\* the await of the lazy load's promise is due
Resumable(i) == ops[i].pc = "await" /\ loadP.st \in {"ok", "failed"}
\* no promise reaction is due: a macrotask may run
Quiet == \A i \in OpIds : ~Startable(i) /\ ~Resumable(i)

\* operation op once its promise has settled: what it awaited is forgotten
Settle(op, pc, err) ==
    [op EXCEPT !.pc = pc, !.err = err, !.pred = 0, !.hasDom = FALSE, !.hasFp = FALSE,
               !.newFp = NoFingerprint,
               !.fp = IF op.kind = "load" THEN op.fp ELSE NoFingerprint]

\* Lock.use(doWork) by a new call
use(i, op) ==
    /\ ops' = [ops EXCEPT ![i] = [op EXCEPT !.pc = "queued", !.pred = pending]]
    /\ pending' = i

\* doWork of i throws: the promise of i rejects, and the finally of use runs
Reject(i, op, err) ==
    /\ ops' = [ops EXCEPT ![i] = Settle(op, "failed", err)]
    /\ pending' = IF Locked(i) THEN 0 ELSE pending
    /\ UNCHANGED inflight

\* ToolpadProject.writeDomToDisk up to its first await: the mode check, then
\* writeDomToDisk(root, newDom) expands the pages and starts every write
BeginWriteDomToDisk(i, op) ==
    IF ~dev THEN Reject(i, op, "mode")
    ELSE IF ExpandThrows(op.newDom) THEN Reject(i, op, "expand")
    ELSE /\ ops' = [ops EXCEPT ![i] = [op EXCEPT !.pc = "write"]]
         /\ inflight' = inflight \cup writeDomToDisk(i, op.newDom)
         /\ UNCHANGED pending

\* appDom.getRequiredEnvVars(dom), in the order of the Set it returns.  The
\* tree of the model leaves out the bindings of the queries: the variables
\* the trees of a run require are limit.vars
getRequiredEnvVars(dom) == limit.vars

\* the elements of the sequence s
Elements(s) == {s[k] : k \in 1..Len(s)}

\* alertOnMissingVariablesInDom were it to warn of every missing variable
\* at every call
alertOnMissingVariablesInDomAll(i, dom) ==
    LET requiredVars == getRequiredEnvVars(dom)
        missingVars == SelectSeq(requiredVars, LAMBDA key : key \notin env)
        toAlert == missingVars
        firstThree == SubSeq(toAlert, 1, IF Len(toAlert) < 3 THEN Len(toAlert) ELSE 3)
        restCount == Len(toAlert) - Len(firstThree)
    IN /\ console' = Append(console, [by |-> i, missing |-> Elements(missingVars),
                                      logged |-> Len(toAlert) > 0,
                                      named |-> firstThree, restCount |-> restCount])
       /\ alertedMissingVars' = Elements(missingVars)
       /\ UNCHANGED env

\* alertOnMissingVariablesInDom: the missing variables not in
\* alertedMissingVars are warned of in one line, which names the first three
\* and counts the rest; alertedMissingVars becomes the missing variables
alertOnMissingVariablesInDom(i, dom) ==
    LET requiredVars == getRequiredEnvVars(dom)
        missingVars == SelectSeq(requiredVars, LAMBDA key : key \notin env)
        toAlert == SelectSeq(missingVars, LAMBDA key : key \notin alertedMissingVars)
        firstThree == SubSeq(toAlert, 1, IF Len(toAlert) < 3 THEN Len(toAlert) ELSE 3)
        restCount == Len(toAlert) - Len(firstThree)
    IN /\ console' = Append(console, [by |-> i, missing |-> Elements(missingVars),
                                      logged |-> Len(toAlert) > 0,
                                      named |-> firstThree, restCount |-> restCount])
       /\ alertedMissingVars' = Elements(missingVars)
       /\ UNCHANGED env

\* applyDomDiff were it to go on to writeDomToDisk with the tree applyDiff
\* left when it failed
AfterLoadUnchecked(i, op0, dom, fp) ==
    LET op == [op0 EXCEPT !.dom = dom, !.fp = fp, !.loaded = TRUE]
    IN CASE op.kind = "load" ->
              /\ alertOnMissingVariablesInDom(i, dom)
              /\ ops' = [ops EXCEPT ![i] = Settle(op, "done", "")]
              /\ UNCHANGED <<pending, inflight>>
         [] op.kind = "recon" ->
              /\ ops' = [ops EXCEPT ![i] = [op EXCEPT !.pc = "fp1"]]
              /\ UNCHANGED <<pending, inflight, alertVars>>
         [] OTHER ->
              /\ BeginWriteDomToDisk(i, [op EXCEPT !.newDom = applyDiff(dom, op.diff).dom])
              /\ UNCHANGED alertVars

\* what follows `await this.loadDomAndFingerprint()` once it has the pair
AfterLoad(i, op0, dom, fp) ==
    LET op == [op0 EXCEPT !.dom = dom, !.fp = fp, !.loaded = TRUE]
    IN CASE op.kind = "load" ->
              /\ alertOnMissingVariablesInDom(i, dom)
              /\ ops' = [ops EXCEPT ![i] = Settle(op, "done", "")]
              /\ UNCHANGED <<pending, inflight>>
         [] op.kind = "recon" ->
              /\ ops' = [ops EXCEPT ![i] = [op EXCEPT !.pc = "fp1"]]
              /\ UNCHANGED <<pending, inflight, alertVars>>
         [] OTHER ->
              LET r == applyDiff(dom, op.diff)
              IN /\ IF r.ok THEN BeginWriteDomToDisk(i, [op EXCEPT !.newDom = r.dom])
                    ELSE Reject(i, op, "diff")
                 /\ UNCHANGED alertVars

\* loadDomAndFingerprint were it to keep the pair only once it has it
\* (this.domAndFingerprint = await Promise.all(...)): every call that finds
\* no pair starts a read of its own
loadDomAndFingerprintUnshared(i, op0) ==
    LET op == [op0 EXCEPT !.ver = ver]
    IN IF cache.tag = "value"
       THEN /\ AfterLoad(i, op, cache.dom, cache.fp)
            /\ UNCHANGED <<cache, loadP, loads>>
       ELSE /\ ops' = [ops EXCEPT ![i] = [op EXCEPT !.pc = "await"]]
            /\ cache' = PromiseCache
            /\ loadP' = [NoLoad EXCEPT !.st = "running"]
            /\ loads' = loads + 1
            /\ UNCHANGED <<pending, inflight, alertVars>>

\* loadDomAndFingerprint: start the lazy load when the cache is null, return
\* what the cache holds
loadDomAndFingerprint(i, op0) ==
    LET op == [op0 EXCEPT !.ver = ver]
    IN IF cache.tag = "value"
       THEN /\ AfterLoad(i, op, cache.dom, cache.fp)
            /\ UNCHANGED <<cache, loadP, loads>>
       ELSE /\ ops' = [ops EXCEPT ![i] = [op EXCEPT !.pc = "await"]]
            /\ IF cache.tag = "null"
               THEN /\ cache' = PromiseCache
                    /\ loadP' = [NoLoad EXCEPT !.st = "running"]
                    /\ loads' = loads + 1
               ELSE UNCHANGED <<cache, loadP, loads>>
            /\ UNCHANGED <<pending, inflight, alertVars>>

(***************************************************************************)
(* The calls.                                                              *)
(***************************************************************************)
\* project.loadDom()
CallLoadDom ==
    /\ Quiet /\ started /\ nextOp <= limit.ops
    /\ nextOp' = nextOp + 1
    /\ loadDomAndFingerprint(nextOp, [IdleOp EXCEPT !.kind = "load"])
    /\ UNCHANGED <<limit, merged, disposed, dev, started, dirty, disk, events, codeComponentsFingerprint,
                   extCount, failCount, ver>>

\* project.saveDom(newDom)
CallSaveDom(newDom) ==
    /\ Quiet /\ started /\ nextOp <= limit.ops
    /\ nextOp' = nextOp + 1
    /\ use(nextOp, [IdleOp EXCEPT !.kind = "save", !.newDom = newDom])
    /\ UNCHANGED <<limit, merged, alertVars, disposed, dev, started, dirty, disk, cache, loadP, inflight, events,
                   codeComponentsFingerprint, extCount, failCount, loads, ver>>

\* project.applyDomDiff(domDiff)
CallApplyDomDiff(domDiff) ==
    /\ Quiet /\ started /\ nextOp <= limit.ops
    /\ nextOp' = nextOp + 1
    /\ use(nextOp, [IdleOp EXCEPT !.kind = "diff", !.diff = domDiff])
    /\ UNCHANGED <<limit, merged, alertVars, disposed, dev, started, dirty, disk, cache, loadP, inflight, events,
                   codeComponentsFingerprint, extCount, failCount, loads, ver>>

\* project.start() were the watcher to be set up whatever options.dev
StartWatching ==
    /\ Quiet /\ ~started
    /\ started' = TRUE
    /\ dirty' = TRUE
    /\ UNCHANGED <<limit, merged, alertVars, disposed, dev, disk, cache, loadP, pending, ops, nextOp, inflight, events,
                   codeComponentsFingerprint, extCount, failCount, loads, ver>>

\* project.start(): in dev mode initWatcher; chokidar reports the files it
\* finds as added
Start ==
    /\ Quiet /\ ~started
    /\ started' = TRUE
    /\ dirty' = dev
    /\ UNCHANGED <<limit, merged, alertVars, disposed, dev, disk, cache, loadP, pending, ops, nextOp, inflight, events,
                   codeComponentsFingerprint, extCount, failCount, loads, ver>>

\* the debounce of updateDomFromExternal runs out: the reconciliation asks
\* for the lock
WatcherFire ==
    /\ Quiet /\ dirty /\ nextOp <= limit.ops
    /\ dirty' = FALSE
    /\ nextOp' = nextOp + 1
    /\ use(nextOp, [IdleOp EXCEPT !.kind = "recon"])
    /\ UNCHANGED <<limit, merged, alertVars, disposed, dev, started, disk, cache, loadP, inflight, events,
                   codeComponentsFingerprint, extCount, failCount, loads, ver>>

(***************************************************************************)
(* Promise reactions.                                                      *)
(***************************************************************************)
\* the reaction of Lock.use: doWork starts, or the rejection is passed on
StartWork(i) ==
    /\ Startable(i)
    /\ IF ops[i].pred # 0 /\ ops[ops[i].pred].pc = "failed"
       THEN /\ Reject(i, ops[i], "chain")
            /\ UNCHANGED <<cache, loadP, loads, alertVars>>
       ELSE IF ops[i].kind = "save"
            THEN /\ BeginWriteDomToDisk(i, ops[i])
                 /\ UNCHANGED <<cache, loadP, loads, alertVars>>
            ELSE loadDomAndFingerprint(i, ops[i])
    /\ UNCHANGED <<limit, merged, disposed, dev, started, dirty, disk, nextOp, events,
                   codeComponentsFingerprint, extCount, failCount, ver>>

\* the lazy load has settled: who awaited it goes on
Resume(i) ==
    /\ Resumable(i)
    /\ IF loadP.st = "failed"
       THEN Reject(i, ops[i], "load") /\ UNCHANGED alertVars
       ELSE AfterLoad(i, ops[i], loadP.dom, loadP.fp)
    /\ UNCHANGED <<limit, merged, disposed, dev, started, dirty, disk, cache, loadP, nextOp, events,
                   codeComponentsFingerprint, extCount, failCount, loads, ver>>

(***************************************************************************)
(* I/O completions.                                                        *)
(***************************************************************************)
\* loadDomFromDisk of the lazy load completes
LazyLoadDom ==
    /\ Quiet /\ loadP.st = "running" /\ ~loadP.hasDom
    /\ LET r == loadDomFromDisk(disk)
       IN loadP' = IF ~r.ok THEN [loadP EXCEPT !.st = "failed"]
                   ELSE [loadP EXCEPT !.hasDom = TRUE, !.dom = r.dom,
                                      !.st = IF loadP.hasFp THEN "ok" ELSE "running"]
    /\ UNCHANGED <<limit, merged, alertVars, disposed, dev, started, dirty, disk, cache, pending, ops, nextOp, inflight,
                   events, codeComponentsFingerprint, extCount, failCount, loads, ver>>

\* loadDomFromDisk of the lazy load rejects on a condition that does not
\* last: a read error, a theme file read while it is being written
LazyLoadFail ==
    /\ Quiet /\ loadP.st = "running" /\ ~loadP.hasDom /\ failCount < limit.fail
    /\ failCount' = failCount + 1
    /\ loadP' = [loadP EXCEPT !.st = "failed"]
    /\ UNCHANGED <<limit, merged, alertVars, disposed, dev, started, dirty, disk, cache, pending, ops, nextOp,
                   inflight, events, codeComponentsFingerprint, extCount, loads, ver>>

\* calculateDomFingerprint of the lazy load completes
LazyLoadFingerprint ==
    /\ Quiet /\ loadP.st = "running" /\ ~loadP.hasFp
    /\ loadP' = [loadP EXCEPT !.hasFp = TRUE, !.fp = calculateDomFingerprint(disk),
                              !.st = IF loadP.hasDom THEN "ok" ELSE "running"]
    /\ UNCHANGED <<limit, merged, alertVars, disposed, dev, started, dirty, disk, cache, pending, ops, nextOp, inflight,
                   events, codeComponentsFingerprint, extCount, failCount, loads, ver>>

\* a write of a save completes
WriteOk(w) ==
    /\ Quiet /\ w \in inflight
    /\ inflight' = inflight \ {w}
    /\ disk' = updateYamlFile(disk, w)
    /\ dirty' = (dirty \/ (started /\ dev /\ Watched(w.target)))
    /\ UNCHANGED <<limit, merged, alertVars, disposed, dev, started, cache, loadP, pending, ops, nextOp, events,
                   codeComponentsFingerprint, extCount, failCount, loads, ver>>

\* a write of a save fails: Promise.all rejects at once, whatever else it
\* waits for
WriteFail(w) ==
    /\ Quiet /\ w \in inflight /\ failCount < limit.fail
    /\ failCount' = failCount + 1
    /\ IF ops[w.op].pc = "write"
       THEN /\ ops' = [ops EXCEPT ![w.op] = Settle(@, "failed", "io")]
            /\ pending' = 0
       ELSE UNCHANGED <<ops, pending>>
    /\ inflight' = inflight \ {w}
    /\ UNCHANGED <<limit, merged, alertVars, disposed, dev, started, dirty, disk, cache, loadP, nextOp, events,
                   codeComponentsFingerprint, extCount, loads, ver>>

\* ToolpadProject.writeDomToDisk were it not to await writeDomToDisk(root,
\* newDom): the fingerprint is taken while writes are in flight
SaveCommitUnawaited(i) ==
    /\ Quiet /\ ops[i].pc = "write"
    /\ LET newFingerprint == calculateDomFingerprint(disk)
       IN /\ cache' = ValueCache(ops[i].newDom, newFingerprint)
          /\ events' = Append(events, Event("change", newFingerprint, i))
          /\ ops' = [ops EXCEPT ![i] = Settle([@ EXCEPT !.committed = TRUE], "done", "")]
    /\ ver' = ver + 1
    /\ pending' = 0
    /\ UNCHANGED <<limit, merged, alertVars, disposed, dev, started, dirty, disk, loadP, nextOp, inflight,
                   codeComponentsFingerprint, extCount, failCount, loads>>

\* ToolpadProject.writeDomToDisk after the writes: calculateDomFingerprint
\* completes, the pair replaces the cache, change is emitted
SaveCommit(i) ==
    /\ Quiet /\ ops[i].pc = "write"
    /\ \A w \in inflight : w.op # i
    /\ LET newFingerprint == calculateDomFingerprint(disk)
       IN /\ cache' = ValueCache(ops[i].newDom, newFingerprint)
          /\ events' = Append(events, Event("change", newFingerprint, i))
          /\ ops' = [ops EXCEPT ![i] = Settle([@ EXCEPT !.committed = TRUE], "done", "")]
    /\ ver' = ver + 1
    /\ pending' = 0
    /\ UNCHANGED <<limit, merged, alertVars, disposed, dev, started, dirty, disk, loadP, nextOp, inflight,
                   codeComponentsFingerprint, extCount, failCount, loads>>

\* updateDomFromExternal were it to reload whatever the fingerprint
ReconFingerprintAlways(i) ==
    /\ Quiet /\ ops[i].pc = "fp1"
    /\ ops' = [ops EXCEPT ![i].pc = "reload"]
    /\ UNCHANGED <<limit, merged, alertVars, disposed, dev, started, dirty, disk, cache, loadP, pending, nextOp,
                   inflight, events, codeComponentsFingerprint, extCount, failCount, loads, ver>>

\* updateDomFromExternal: newFingerprint = await calculateDomFingerprint
ReconFingerprint(i) ==
    /\ Quiet /\ ops[i].pc = "fp1"
    /\ IF calculateDomFingerprint(disk) = ops[i].fp
       THEN /\ ops' = [ops EXCEPT ![i] = Settle(@, "done", "")]
            /\ pending' = 0
       ELSE /\ ops' = [ops EXCEPT ![i].pc = "reload"]
            /\ UNCHANGED pending
    /\ UNCHANGED <<limit, merged, alertVars, disposed, dev, started, dirty, disk, cache, loadP, nextOp, inflight, events,
                   codeComponentsFingerprint, extCount, failCount, loads, ver>>

\* updateDomFromExternal once Promise.all([loadDomFromDisk, calculateDomFingerprint])
\* has both: the pair replaces the cache; change and externalChange carry the
\* fingerprint read before the reload; the component names are those of the
\* tree read before the reload
ReconCommit(i, op) ==
    LET newCodeComponentsFingerprint == getCodeComponentsFingerprint(op.dom)
        changed == codeComponentsFingerprint # newCodeComponentsFingerprint
    IN /\ cache' = ValueCache(op.newDom, op.newFp)
       /\ events' = events \o <<Event("change", op.fp, i), Event("externalChange", op.fp, i)>>
                           \o (IF changed THEN <<Event("componentsListChanged", NoFingerprint, i)>>
                               ELSE <<>>)
       /\ codeComponentsFingerprint' =
            IF changed THEN newCodeComponentsFingerprint ELSE codeComponentsFingerprint
       /\ ops' = [ops EXCEPT ![i] = Settle([op EXCEPT !.committed = TRUE], "done", "")]
       /\ ver' = ver + 1
       /\ pending' = 0

ReconLoadDom(i) ==
    /\ Quiet /\ ops[i].pc = "reload" /\ ~ops[i].hasDom
    /\ LET r == loadDomFromDisk(disk)
           op == [ops[i] EXCEPT !.hasDom = TRUE, !.newDom = r.dom]
       IN IF ~r.ok
          THEN /\ ops' = [ops EXCEPT ![i] = Settle(@, "failed", "load")]
               /\ pending' = 0
               /\ UNCHANGED <<cache, events, codeComponentsFingerprint, ver>>
          ELSE IF op.hasFp THEN ReconCommit(i, op)
          ELSE /\ ops' = [ops EXCEPT ![i] = op]
               /\ UNCHANGED <<pending, cache, events, codeComponentsFingerprint, ver>>
    /\ UNCHANGED <<limit, merged, alertVars, disposed, dev, started, dirty, disk, loadP, nextOp, inflight,
                   extCount, failCount, loads>>

ReconLoadFingerprint(i) ==
    /\ Quiet /\ ops[i].pc = "reload" /\ ~ops[i].hasFp
    /\ LET op == [ops[i] EXCEPT !.hasFp = TRUE, !.newFp = calculateDomFingerprint(disk)]
       IN IF op.hasDom THEN ReconCommit(i, op)
          ELSE /\ ops' = [ops EXCEPT ![i] = op]
               /\ UNCHANGED <<pending, cache, events, codeComponentsFingerprint, ver>>
    /\ UNCHANGED <<limit, merged, alertVars, disposed, dev, started, dirty, disk, loadP, nextOp, inflight,
                   extCount, failCount, loads>>

\* the watcher were it to call updateDomFromExternal on every event, with
\* no debounce
ExternalEditUndebounced(e) ==
    /\ Quiet /\ started /\ extCount < limit.ext
    /\ extCount' = extCount + 1
    /\ disk' = applyExtEdit(disk, e)
    /\ IF dev /\ Watched(e.target) /\ nextOp <= limit.ops
       THEN /\ nextOp' = nextOp + 1
            /\ use(nextOp, [IdleOp EXCEPT !.kind = "recon"])
       ELSE UNCHANGED <<nextOp, ops, pending>>
    /\ UNCHANGED <<limit, merged, alertVars, disposed, dev, started, dirty, cache, loadP, inflight, events,
                   codeComponentsFingerprint, failCount, loads, ver>>

\* another program writes a file of the project folder
ExternalEdit(e) ==
    /\ Quiet /\ started /\ extCount < limit.ext
    /\ extCount' = extCount + 1
    /\ disk' = applyExtEdit(disk, e)
    /\ dirty' = (dirty \/ (started /\ dev /\ Watched(e.target)))
    /\ UNCHANGED <<limit, merged, alertVars, disposed, dev, started, cache, loadP, pending, ops, nextOp, inflight, events,
                   codeComponentsFingerprint, failCount, loads, ver>>

\* project.dispose(): the env manager and the functions manager are disposed;
\* the handle chokidar.watch returned was not kept, and the cache stays
Dispose ==
    /\ Quiet /\ started /\ ~disposed
    /\ disposed' = TRUE
    /\ UNCHANGED <<limit, merged, alertVars, dev, started, dirty, disk, cache, loadP, pending, ops, nextOp,
                   inflight, events, codeComponentsFingerprint, extCount, failCount, loads, ver>>

NextNoFail ==
    \/ CallLoadDom
    \/ \E newDom \in SaveTrees : CallSaveDom(newDom)
    \/ \E domDiff \in Diffs : CallApplyDomDiff(domDiff)
    \/ Start
    \/ WatcherFire
    \/ \E i \in OpIds : StartWork(i)
    \/ \E i \in OpIds : Resume(i)
    \/ LazyLoadDom
    \/ LazyLoadFingerprint
    \/ \E w \in inflight : WriteOk(w)
    \/ \E i \in OpIds : SaveCommit(i)
    \/ \E i \in OpIds : ReconFingerprint(i)
    \/ \E i \in OpIds : ReconLoadDom(i)
    \/ \E i \in OpIds : ReconLoadFingerprint(i)
    \/ \E e \in ExtEdits : ExternalEdit(e)

Next ==
    \/ NextNoFail
    \/ \E w \in inflight : WriteFail(w)

Spec == Init /\ [][Next]_vars

\* the runs of at most MaxCalls calls in which no write fails
InitCalls ==
    /\ limit = [ops |-> MaxCalls, fail |-> 0, ext |-> MaxExt, vars |-> <<>>]
    /\ disk = InitDisk
    /\ merged = NoMerge
    /\ Constructed

SpecCalls == InitCalls /\ [][NextNoFail]_vars

(***************************************************************************)
(* The mapper alone: one saveDom of a tree over a project folder that      *)
(* other sessions left, with no write failing and no other program         *)
(* writing.                                                                *)
(***************************************************************************)
RichPage ==
    PageNode(1, "a", "Home", <<[component |-> "Button", name |-> "button"]>>,
             <<[name |-> "q", dataSource |-> "rest"], [name |-> "r", dataSource |-> NoDataSource]>>)
MapperTrees ==
    {[pages |-> ps, themes |-> ts, codeComponents |-> cs] :
        ps \in {<<>>,
                <<PageNode(1, "a", "Home", <<>>, <<>>)>>,
                <<PageNode(1, "b", "Home", <<>>, <<>>)>>,
                <<PageNode(1, "a", "Home", <<>>, <<>>), PageNode(2, "b", "Two", <<>>, <<>>)>>,
                <<RichPage>>},
        ts \in {<<>>, <<[theme |-> "dark"]>>},
        cs \in {<<>>, <<[name |-> "c", code |-> "src"]>>}}

MapperPageFiles ==
    {NoPageFile, File(HomePage, 0), File(PageDoc(2, "Two", <<>>, <<>>), 0), File(InvalidPage, 0)}
\* the project folders initProject accepts: at least one valid page
MapperDisks ==
    {d \in [pages : [PageNames -> MapperPageFiles],
            theme : {NoThemeFile, File(ThemeDoc("light"), 1)},
            comps : [CompNames -> {NoCompFile, File("src", 0)}]] :
        \E n \in PageNames : d.pages[n].exists /\ d.pages[n].content.kind = "page"}

InitMapper ==
    /\ limit = [ops |-> 1, fail |-> 0, ext |-> 0, vars |-> <<>>]
    /\ disk \in MapperDisks
    /\ merged = NoMerge
    /\ Constructed

NextMapper ==
    \/ Start
    \/ \E newDom \in MapperTrees : CallSaveDom(newDom)
    \/ \E i \in OpIds : StartWork(i)
    \/ \E w \in inflight : WriteOk(w)
    \/ \E i \in OpIds : SaveCommit(i)

SpecMapper == InitMapper /\ [][NextMapper]_vars

(***************************************************************************)
(* The loader alone: loadDom calls over a project folder whose page and    *)
(* theme files hold whatever other programs left in them.                  *)
(***************************************************************************)
PageId(n) == IF n = "a" THEN 1 ELSE 2
LoadPageFiles(n) ==
    {NoPageFile,
     File(PageDoc(PageId(n), "Title", <<[component |-> "Button", name |-> "button"]>>,
                  <<[name |-> "q", kind |-> "rest"], [name |-> "r", kind |-> "local"]>>), 0),
     File(PageDoc(PageId(n), "Title", <<>>,
                  <<[name |-> "q", kind |-> "rest"], [name |-> "x", kind |-> "graphql"]>>), 0),
     File(MalformedPage, 0),
     File(InvalidPage, 0)}
LoadDisks ==
    {d \in [pages : {ps \in [PageNames -> UNION {LoadPageFiles(n) : n \in PageNames}] :
                        \A n \in PageNames : ps[n] \in LoadPageFiles(n)},
            theme : {NoThemeFile, File(ThemeDoc("light"), 0), File(InvalidTheme, 0)},
            comps : {[n \in CompNames |-> NoCompFile]}] :
        \E n \in PageNames : d.pages[n].exists /\ pageSchema(d.pages[n].content)}

InitLoad ==
    /\ limit = [ops |-> MaxCalls, fail |-> 0, ext |-> MaxExt, vars |-> <<>>]
    /\ disk \in LoadDisks
    /\ merged = NoMerge
    /\ Constructed

NextLoad ==
    \/ Start
    \/ CallLoadDom
    \/ \E i \in OpIds : Resume(i)
    \/ LazyLoadDom
    \/ LazyLoadFingerprint

SpecLoad == InitLoad /\ [][NextLoad]_vars

(***************************************************************************)
(* applyDomDiff alone: diffs that apply and diffs that do not, over the    *)
(* folder initProject leaves.                                              *)
(***************************************************************************)
\* diffs whose second operation names a node that is not in the tree
FailingDiffs ==
    {<<DiffSetTitle(1, "Edited"), DiffRemove(3)>>,
     <<DiffAddPage(2, "b", "New"), DiffSetTitle(3, "Edited")>>}

InitDiff ==
    /\ limit = [ops |-> MaxCalls, fail |-> 0, ext |-> MaxExt, vars |-> <<>>]
    /\ disk = InitDisk
    /\ merged = NoMerge
    /\ Constructed

NextDiff ==
    \/ Start
    \/ CallLoadDom
    \/ \E domDiff \in Diffs \cup FailingDiffs : CallApplyDomDiff(domDiff)
    \/ \E i \in OpIds : StartWork(i)
    \/ \E i \in OpIds : Resume(i)
    \/ LazyLoadDom
    \/ LazyLoadFingerprint
    \/ \E w \in inflight : WriteOk(w)
    \/ \E i \in OpIds : SaveCommit(i)

SpecDiff == InitDiff /\ [][NextDiff]_vars

(***************************************************************************)
(* The life of a project up to and after dispose(), with no write failing. *)
(***************************************************************************)
NextWatch ==
    \/ NextNoFail
    \/ Dispose

SpecWatch == InitCalls /\ [][NextWatch]_vars

(***************************************************************************)
(* The watcher alone: loads and reconciliations while other programs write *)
(* the project folder; no saveDom, no applyDomDiff.                        *)
(***************************************************************************)
NextRecon ==
    \/ Start
    \/ CallLoadDom
    \/ WatcherFire
    \/ \E i \in OpIds : StartWork(i)
    \/ \E i \in OpIds : Resume(i)
    \/ LazyLoadDom
    \/ LazyLoadFingerprint
    \/ \E i \in OpIds : ReconFingerprint(i)
    \/ \E i \in OpIds : ReconLoadDom(i)
    \/ \E i \in OpIds : ReconLoadFingerprint(i)
    \/ \E e \in ExtEdits : ExternalEdit(e)

InitRecon ==
    /\ limit = [ops |-> MaxCalls, fail |-> 0, ext |-> MaxBurst, vars |-> <<>>]
    /\ disk = InitDisk
    /\ merged = NoMerge
    /\ Constructed

SpecRecon == InitRecon /\ [][NextRecon]_vars

(***************************************************************************)
(* The watcher after a read of the project folder that failed.             *)
(***************************************************************************)
InitRetry ==
    /\ limit = [ops |-> MaxCalls, fail |-> MaxFail, ext |-> MaxExt, vars |-> <<>>]
    /\ disk = InitDisk
    /\ merged = NoMerge
    /\ Constructed

NextRetry ==
    \/ NextRecon
    \/ LazyLoadFail

SpecRetry == InitRetry /\ [][NextRetry]_vars

(***************************************************************************)
(* The loader over page files that other programs copied: two page folders *)
(* may hold the same spec.id.                                              *)
(***************************************************************************)
MergePageFiles(n) ==
    {NoPageFile} \cup
    {File(PageDoc(id, n, content, queries), 0) :
        id \in {1, 2},
        content \in {<<>>, <<[component |-> "Button", name |-> n]>>},
        queries \in {<<>>, <<[name |-> n, kind |-> "rest"]>>}}
MergeDisks ==
    {d \in [pages : {ps \in [PageNames -> UNION {MergePageFiles(n) : n \in PageNames}] :
                        \A n \in PageNames : ps[n] \in MergePageFiles(n)},
            theme : {NoThemeFile},
            comps : {[n \in CompNames |-> NoCompFile]}] :
        \E n \in PageNames : d.pages[n].exists}

InitMerge ==
    /\ limit = [ops |-> MaxCalls, fail |-> 0, ext |-> 0, vars |-> <<>>]
    /\ disk \in MergeDisks
    /\ merged = NoMerge
    /\ Constructed

SpecMerge == InitMerge /\ [][NextLoad]_vars

(***************************************************************************)
(* loadDom calls while the environment variables come and go.              *)
(***************************************************************************)
EnvOrder == <<"A", "B", "C", "D">>

\* the env manager or another part of the process sets or unsets variables
EnvChange(e) ==
    /\ Quiet /\ e # env
    /\ env' = e
    /\ UNCHANGED <<limit, merged, disposed, dev, started, dirty, disk, cache, loadP, pending, ops, nextOp,
                   inflight, events, codeComponentsFingerprint, extCount, failCount, loads, ver,
                   alertedMissingVars, console>>

InitAlert ==
    /\ limit = [ops |-> MaxCalls, fail |-> 0, ext |-> 0, vars |-> EnvOrder]
    /\ disk = InitDisk
    /\ merged = NoMerge
    /\ Constructed

NextAlert ==
    \/ Start
    \/ CallLoadDom
    \/ \E i \in OpIds : Resume(i)
    \/ LazyLoadDom
    \/ LazyLoadFingerprint
    \/ \E e \in SUBSET Elements(EnvOrder) : EnvChange(e)

SpecAlert == InitAlert /\ [][NextAlert]_vars

(***************************************************************************)
(* mergeComponentsContentIntoDom alone, on any tree and any component      *)
(* files.                                                                  *)
(***************************************************************************)
NodeNames == {"c", "d", "e"}
\* the sequences of at most n code component nodes
RECURSIVE NodeSeqs(_)
NodeSeqs(n) ==
    IF n = 0 THEN {<<>>}
    ELSE NodeSeqs(n - 1) \cup
         {Append(ns, [name |-> name, code |-> "old"]) :
             ns \in {x \in NodeSeqs(n - 1) : Len(x) = n - 1}, name \in NodeNames}
\* ComponentsContent: the files of the components folder, in readdir order
ComponentFiles ==
    {<<>>, <<[name |-> "c", code |-> "new"]>>, <<[name |-> "d", code |-> "new"]>>,
     <<[name |-> "c", code |-> "new"], [name |-> "d", code |-> "new"]>>}

MergeComponents ==
    /\ ~merged.done
    /\ merged' = [merged EXCEPT !.done = TRUE,
                                !.result = mergeComponentsContentIntoDom(merged.dom, merged.components)]
    /\ UNCHANGED <<limit, disposed, dev, started, dirty, disk, cache, loadP, pending, ops, nextOp,
                   inflight, events, codeComponentsFingerprint, extCount, failCount, loads, ver,
                   alertVars>>

InitUpsert ==
    /\ limit = [ops |-> 0, fail |-> 0, ext |-> 0, vars |-> <<>>]
    /\ disk = InitDisk
    /\ \E ns \in NodeSeqs(MaxNodes), cc \in ComponentFiles :
          merged = [done |-> FALSE, dom |-> [createDom EXCEPT !.codeComponents = ns],
                    components |-> cc, result |-> createDom]
    /\ Constructed

NextUpsert ==
    \/ Start
    \/ MergeComponents

SpecUpsert == InitUpsert /\ [][NextUpsert]_vars

(***************************************************************************)
(* The gateway over a project folder that holds, beside its valid page, a  *)
(* page file and a theme file that do not pass their schemas.              *)
(***************************************************************************)
InvalidUnitsDisk ==
    [InitDisk EXCEPT !.pages["b"] = File(InvalidPage, 0), !.theme = File(InvalidTheme, 0)]

InitInvalidUnits ==
    /\ limit = [ops |-> MaxCalls, fail |-> 0, ext |-> MaxExt, vars |-> <<>>]
    /\ disk = InvalidUnitsDisk
    /\ merged = NoMerge
    /\ Constructed

SpecInvalidUnits == InitInvalidUnits /\ [][NextNoFail]_vars

(***************************************************************************)
(* The program alone: calls and the watcher, while no other program writes *)
(* the project folder and no write fails.                                  *)
(***************************************************************************)
InitAlone ==
    /\ limit = [ops |-> MaxOps, fail |-> 0, ext |-> 0, vars |-> <<>>]
    /\ disk = InitDisk
    /\ merged = NoMerge
    /\ Constructed

NextAlone ==
    \/ Start
    \/ CallLoadDom
    \/ \E newDom \in SaveTrees : CallSaveDom(newDom)
    \/ \E domDiff \in Diffs : CallApplyDomDiff(domDiff)
    \/ WatcherFire
    \/ \E i \in OpIds : StartWork(i)
    \/ \E i \in OpIds : Resume(i)
    \/ LazyLoadDom
    \/ LazyLoadFingerprint
    \/ \E w \in inflight : WriteOk(w)
    \/ \E i \in OpIds : SaveCommit(i)
    \/ \E i \in OpIds : ReconFingerprint(i)
    \/ \E i \in OpIds : ReconLoadDom(i)
    \/ \E i \in OpIds : ReconLoadFingerprint(i)

SpecAlone == InitAlone /\ [][NextAlone]_vars

(***************************************************************************)
(* The properties.                                                         *)
(***************************************************************************)
AllSettled == \A i \in OpIds : ops[i].pc \in {"idle", "done", "failed"}
Max(S) == CHOOSE x \in S : \A y \in S : y <= x
\* the operations admitted before i that replaced the cache
CommittedBefore(i) == {j \in OpIds : j < i /\ ops[j].committed}

\* C1: at most one critical section among saveDom, applyDomDiff and the
\* watcher's reconciliation is executing at any moment.
C1_MutualExclusion == Cardinality({i \in OpIds : InCS(i)}) <= 1

\* C2: if X calls Lock.use before Y, the critical section of X has started
\* and fully completed before the critical section of Y starts.
C2_FifoAdmission ==
    \A x, y \in OpIds :
        (x < y /\ Locked(x) /\ Locked(y) /\ InCS(y)) => Settled(x)

\* C3: the tree an applyDomDiff loads is the tree written by the operation
\* admitted most recently before it, and once every call has completed the
\* cached tree is the one written by the operation admitted last.
C3_NoLostUpdate ==
    /\ \A i \in OpIds :
          (/\ ops[i].kind = "diff" /\ ops[i].loaded
           /\ \A j \in 1..(i - 1) : ops[j].pc \in {"done", "failed"}
           /\ CommittedBefore(i) # {})
              => ops[i].dom = ops[Max(CommittedBefore(i))].newDom
    /\ LET done == {j \in OpIds : ops[j].committed}
       IN (AllSettled /\ done # {}) => cache.dom = ops[Max(done)].newDom

\* C4: the lock is released only after every file write its holder started
\* has completed: while a write is in flight the operation that started it
\* has not settled and no other operation is in its critical section.
C4_ReleaseAfterWrites ==
    \A w \in inflight :
        /\ ~Settled(w.op)
        /\ \A i \in OpIds \ {w.op} : ~InCS(i)

C6_ModeErrorNoStateChange ==
    [][\A i \in OpIds :
          (~dev /\ ops'[i] # ops[i] /\ ops'[i].kind \in {"save", "diff"}) =>
              /\ disk' = disk
              /\ inflight' = inflight
              /\ cache' = cache
              /\ events' = events]_vars

\* C7: a load never writes; the disk is read for the lazy load at most
\* once; loads that saw the same cache, one after the other or at once,
\* return the same tree and fingerprint.
C7_LoadReadsOnce ==
    /\ [](loads <= 1)
    /\ [](\A i, j \in OpIds :
            (/\ ops[i].kind = "load" /\ ops[i].pc = "done"
             /\ ops[j].kind = "load" /\ ops[j].pc = "done"
             /\ ops[i].ver = ops[j].ver)
                => ops[i].dom = ops[j].dom /\ ops[i].fp = ops[j].fp)
    /\ [][((\E i \in OpIds : ops'[i] # ops[i] /\ ops'[i].kind = "load") \/ loadP' # loadP)
              => disk' = disk /\ inflight' = inflight]_vars

\* two loads of the same cache have returned, after one read of the disk
C7_TwoLoadsOneRead ==
    \E i, j \in OpIds :
        /\ i < j
        /\ ops[i].kind = "load" /\ ops[i].pc = "done"
        /\ ops[j].kind = "load" /\ ops[j].pc = "done"
        /\ ops[i].ver = ops[j].ver
        /\ loads = 1

\* C8: once saveDom(T) has returned, loading the project folder gives a
\* tree equal to T, whatever the folder held before the save.
C8_RoundTrip ==
    \A i \in OpIds :
        (ops[i].kind = "save" /\ ops[i].pc = "done")
            => loadDomFromDisk(disk) = [ok |-> TRUE, dom |-> ops[i].newDom]

\* C9: every write by another program to a page, component or theme file
\* changes the fingerprint and, in dev mode, is picked up by the watcher.
C9_FingerprintCoversDomFiles ==
    [][extCount' = extCount + 1 =>
          /\ calculateDomFingerprint(disk') # calculateDomFingerprint(disk)
          /\ dev => dirty']_vars

\* C10: no content of a page or theme file makes a load fail: neither the
\* lazy load nor the reload of a reconciliation throws.
C10_InvalidUnitsNeverFailLoad ==
    /\ loadP.st # "failed"
    /\ \A i \in OpIds : ops[i].err # "load"

\* a tag of the page document is none the code knows
HasUnrecognizedTag(doc) ==
    doc.kind = "page" /\ \E k \in 1..Len(doc.queries) : QueryThrows(doc.queries[k])
\* the page nodes of tree dom that come from the page folder n
PagesNamed(dom, n) == SelectSeq(dom.pages, LAMBDA p : p.name = n)

C12_ThemeFileFollowsTree ==
    \A i \in OpIds :
        (ops[i].kind = "save" /\ ops[i].pc = "done") =>
            /\ disk.theme.exists <=> Len(ops[i].newDom.themes) > 0
            /\ disk.theme.exists => disk.theme.content = ThemeDoc(ops[i].newDom.themes[1].theme)

\* a save of a tree with no theme node has returned over a folder that had
\* a theme.yml
C12_ThemeFileDeleted ==
    \E i \in OpIds :
        /\ ops[i].kind = "save" /\ ops[i].pc = "done"
        /\ ops[i].newDom.themes = <<>>
        /\ ~disk.theme.exists /\ disk.theme.mtime = 1

\* C13: no step of a saveDom or applyDomDiff creates, changes or deletes a
\* file of the components folder: only another program does.
C13_ComponentsNeverWritten ==
    [][disk'.comps # disk.comps => extCount' = extCount + 1]_vars

\* a save of a tree with a codeComponent node that has no file has returned
C13_SavedComponentNode ==
    \E i \in OpIds :
        /\ ops[i].kind = "save" /\ ops[i].pc = "done"
        /\ ops[i].newDom.codeComponents # <<>>
        /\ \E n \in CompNames : ~disk.comps[n].exists

\* every call made so far was an applyDomDiff whose diff did not apply
OnlyFailedDiffs == nextOp > 1 /\ \A i \in 1..(nextOp - 1) : ops[i].err = "diff"

\* C14 as stated: an applyDomDiff whose diff cannot be applied leaves
\* everything as it was: no file written, the cache as before the call, no
\* event.
C14_FailedDiffChangesNothing ==
    OnlyFailedDiffs =>
        /\ disk = InitDisk /\ inflight = {}
        /\ events = <<>>
        /\ cache = NullCache

\* C14: an applyDomDiff whose diff cannot be applied fails, writes no file,
\* emits no event and replaces no cached pair; the one thing it may do to the
\* cache is load it from disk when it was not loaded yet, and what it loads
\* is the tree of the files, with no part of the diff applied.
C14_FailedDiffAppliesNothing ==
    /\ [](OnlyFailedDiffs => /\ disk = InitDisk /\ inflight = {}
                             /\ events = <<>>
                             /\ cache.tag # "value"
                             /\ loadP.st = "ok" => loadP.dom = loadDomFromDisk(InitDisk).dom)
    /\ [](\A i \in OpIds :
            (ops[i].kind = "diff" /\ ops[i].loaded /\ ~applyDiff(ops[i].dom, ops[i].diff).ok)
                => ops[i].pc = "failed" /\ ops[i].err = "diff")
    /\ [](\A i \in OpIds :
            ops[i].err = "diff" =>
                /\ ~ops[i].committed
                /\ \A w \in inflight : w.op # i
                /\ \A k \in 1..Len(events) : events[k].by # i)
    /\ [][\A i \in OpIds :
            (ops'[i] # ops[i] /\ ops'[i].kind = "diff" /\ ops'[i].pc \in {"queued", "await", "failed"})
                => /\ disk' = disk /\ inflight' = inflight
                   /\ events' = events
                   /\ cache.tag = "value" => cache' = cache]_vars

\* an applyDomDiff has failed on its diff while the cache held the pair of
\* an earlier applyDomDiff
C14_DiffFailedOnCachedPair ==
    \E i, j \in OpIds :
        /\ j < i
        /\ ops[j].kind = "diff" /\ ops[j].committed
        /\ ops[i].err = "diff"
        /\ cache = ValueCache(ops[j].newDom, cache.fp)

\* C15: once dispose() has completed the cached pair is released and the
\* watcher is stopped: a file written afterwards schedules no reconciliation.
C15_DisposeStopsWatcher ==
    /\ [](disposed => cache.tag = "null")
    /\ [][(disposed /\ extCount' = extCount + 1) => dirty' = dirty]_vars

\* the types of the events emitted in this step
NewEvents == [k \in 1..(Len(events') - Len(events)) |-> events'[Len(events) + k].type]

\* C16: a reconciliation that finds the fingerprint of the disk equal to the
\* cached one ends there, cache and events untouched; one that finds it
\* different reloads the tree from disk, replaces the cached pair and then
\* emits exactly one change followed by exactly one externalChange.
C16_ReconNoOpOrReload ==
    [][\A i \in OpIds :
          /\ (ops[i].kind = "recon" /\ ops[i].pc = "fp1" /\ ops'[i].pc # "fp1") =>
                IF calculateDomFingerprint(disk) = ops[i].fp
                THEN ops'[i].pc = "done" /\ cache' = cache /\ events' = events
                ELSE ops'[i].pc = "reload" /\ cache' = cache /\ events' = events
          /\ (ops[i].kind = "recon" /\ ops[i].pc = "reload" /\ ops'[i].pc = "done") =>
                /\ cache'.tag = "value"
                /\ cache'.dom = IF ops[i].hasDom THEN ops[i].newDom ELSE loadDomFromDisk(disk).dom
                /\ cache'.fp = IF ops[i].hasFp THEN ops[i].newFp ELSE calculateDomFingerprint(disk)
                /\ Len(NewEvents) >= 2
                /\ NewEvents[1] = "change" /\ NewEvents[2] = "externalChange"
                /\ \A k \in 3..Len(NewEvents) : NewEvents[k] \notin {"change", "externalChange"}
          /\ (ops[i].kind = "recon" /\ ops[i].pc = "reload" /\ ops'[i].pc = "reload"
                  /\ ops'[i] # ops[i]) =>
                /\ cache' = cache /\ events' = events
                /\ ops'[i].hasDom /\ ~ops[i].hasDom => ops'[i].newDom = loadDomFromDisk(disk).dom]_vars

\* a reconciliation has reloaded, and one has found nothing to do
C16_ReloadedAndNoOp ==
    \E i, j \in OpIds :
        /\ ops[i].kind = "recon" /\ ops[i].pc = "done" /\ ops[i].committed
        /\ ops[j].kind = "recon" /\ ops[j].pc = "done" /\ ~ops[j].committed
        /\ \E k \in 1..Len(events) : events[k].by = i /\ events[k].type = "externalChange"

\* the names of the code components of tree dom
ComponentNames(dom) == {dom.codeComponents[k].name : k \in 1..Len(dom.codeComponents)}

\* C17: a reconciliation that reloads emits componentsListChanged if and
\* only if the code components of the reloaded tree do not have the names
\* of those of the tree it replaces.
C17_ComponentsListChangedIff ==
    [][\A i \in OpIds :
          (ops[i].kind = "recon" /\ ops[i].pc = "reload" /\ ops'[i].pc = "done") =>
              ((\E k \in DOMAIN NewEvents : NewEvents[k] = "componentsListChanged")
                  <=> ComponentNames(cache'.dom) # ComponentNames(ops[i].dom))]_vars

\* the reconciliations started so far
Recons == {i \in OpIds : ops[i].kind = "recon"}

\* C18: file events that follow each other within the debounce window (no
\* run of the debounced updateDomFromExternal between them) trigger one
\* reconciliation: an event that finds a call waiting starts nothing and
\* leaves that one call waiting, the call that runs starts exactly one
\* reconciliation, and a reconciliation emits at most one change and one
\* externalChange.
C18_BurstOneReconciliation ==
    /\ [][/\ (extCount' = extCount + 1) =>
                /\ Recons' = Recons
                /\ dirty => dirty'
          /\ (Recons' # Recons) =>
                /\ dirty /\ ~dirty'
                /\ Cardinality(Recons') = Cardinality(Recons) + 1]_vars
    /\ [](\A i \in Recons : \A t \in {"change", "externalChange"} :
            Cardinality({k \in 1..Len(events) : events[k].by = i /\ events[k].type = t}) <= 1)

\* two files were written within the window that the watcher's first events
\* opened, and the one reconciliation of the run has loaded both
C18_BurstCoalesced ==
    /\ extCount = 2 /\ ~dirty
    /\ disk.pages["b"].exists /\ disk.comps["c"].exists
    /\ Cardinality(Recons) = 1
    /\ \A i \in Recons : ops[i].pc = "done"
    /\ cache.tag = "promise" /\ loadP.st = "ok"
    /\ Len(loadP.dom.pages) = 2 /\ Len(loadP.dom.codeComponents) = 1

\* C19: with options.dev false no watcher runs: no call of
\* updateDomFromExternal is ever waiting, no reconciliation starts, no
\* externalChange is emitted, and once the cache holds the loaded pair
\* nothing changes it.
C19_NoWatcherOutsideDev ==
    /\ [](~dev => /\ ~dirty
                  /\ Recons = {}
                  /\ \A k \in 1..Len(events) : events[k].type # "externalChange")
    /\ [][(~dev /\ (cache.tag = "value" \/ loadP.st = "ok"))
              => cache' = cache /\ loadP' = loadP]_vars

\* outside dev mode the cache is loaded, a page file was written by another
\* program since, and a saveDom was rejected
C19_LoadedOutsideDev ==
    /\ ~dev /\ loadP.st = "ok"
    /\ disk.pages["b"].exists
    /\ loadDomFromDisk(disk).dom # loadP.dom
    /\ \E i \in OpIds : ops[i].kind = "save" /\ ops[i].err = "mode"

\* C20: after a read of the project folder has failed, the reconciliation
\* the next file event starts reads the folder again: a reconciliation that
\* has to wait for the tree waits for a read that is under way, never for
\* one that has already failed, and one that ends well leaves a loaded cache.
C20_WatcherRetriesLoad ==
    /\ [][\A i \in OpIds :
            (ops'[i].kind = "recon" /\ ops[i].pc = "queued" /\ ops'[i].pc = "await")
                => loadP'.st = "running"]_vars
    /\ [](\A i \in Recons :
            ops[i].pc = "done" => (cache.tag = "value" \/ loadP.st = "ok"))

\* what was missing at the call of alertOnMissingVariablesInDom before call k
MissingBefore(k) == IF k = 1 THEN {} ELSE console[k - 1].missing

\* the call at which the missing set last changed, seen from call k
LastChange(k) ==
    Max({1} \cup {c \in 1..k : console[c].missing # MissingBefore(c)})

\* C21, as stated: the line logged at a call names v if and only if v is
\* missing at that call and no line has named v since the call at which the
\* missing set last changed; every loadDom that got the tree returns it.
C21_WarnedIffMissingAndNotYetWarned ==
    /\ \A k \in 1..Len(console) : \A v \in Elements(EnvOrder) :
          (console[k].logged /\ v \in Elements(console[k].named))
              <=> /\ v \in console[k].missing
                  /\ \A j \in LastChange(k)..(k - 1) : v \notin Elements(console[j].named)
    /\ \A i \in OpIds : (ops[i].kind = "load" /\ ops[i].loaded) => ops[i].pc = "done"

\* C21, amended: a line is logged at a call if and only if some variable is
\* missing at that call that was not missing at the call before (none was,
\* before the first call); the line names the first three of those variables
\* and counts the others, so a variable that stays missing is warned of once;
\* every loadDom that got the tree returns it and has made one such call.
C21_WarnsOfNewlyMissing ==
    /\ \A k \in 1..Len(console) :
          LET new == console[k].missing \ MissingBefore(k)
              named == console[k].named
          IN /\ console[k].logged <=> new # {}
             /\ Elements(named) \subseteq new
             /\ Cardinality(Elements(named)) = Len(named)
             /\ Len(named) = IF Cardinality(new) < 3 THEN Cardinality(new) ELSE 3
             /\ Len(named) + console[k].restCount = Cardinality(new)
             /\ \A a, b \in 1..Len(named) :
                   a < b => \E x, y \in 1..Len(EnvOrder) :
                               x < y /\ EnvOrder[x] = named[a] /\ EnvOrder[y] = named[b]
    /\ \A i \in OpIds :
          (ops[i].kind = "load" /\ ops[i].loaded) =>
              /\ ops[i].pc = "done"
              /\ Cardinality({k \in 1..Len(console) : console[k].by = i}) = 1
    /\ alertedMissingVars = MissingBefore(Len(console) + 1)

\* two loads have returned: the first warned of four variables and named
\* three, the second found some of them still missing and logged nothing
C21_WarnedOnceThenSilent ==
    /\ Len(console) = 2
    /\ console[1].logged /\ console[1].restCount = 1
    /\ console[2].missing # {} /\ console[2].missing # console[1].missing
    /\ ~console[2].logged
    /\ \A k \in 1..2 : ops[console[k].by].pc = "done"

\* the page folders whose page.yml is a valid page
ValidPageNames == {n \in PageNames : disk.pages[n].exists /\ pageSchema(disk.pages[n].content)}

\* the page folder read last among those whose file declares the id of n's
LastWithIdOf(n) ==
    PageDirOrder[Max({k \in 1..Len(PageDirOrder) :
                        /\ PageDirOrder[k] \in ValidPageNames
                        /\ disk.pages[PageDirOrder[k]].content.id = disk.pages[n].content.id})]

\* C22: in every tree loadDom returns no two page nodes have the same id; for
\* every id the valid page files declare there is exactly one page node, that
\* of the file merged last among those that declare it, with the elements and
\* queries of that file; nothing of a page file that was replaced is left.
C22_OnePageNodePerId ==
    \A i \in OpIds :
        (ops[i].kind = "load" /\ ops[i].pc = "done") =>
            LET pages == ops[i].dom.pages
            IN /\ \A k, m \in 1..Len(pages) : pages[k].id = pages[m].id => k = m
               /\ {pages[k].name : k \in 1..Len(pages)} = {LastWithIdOf(n) : n \in ValidPageNames}
               /\ \A k \in 1..Len(pages) :
                     LET f == disk.pages[pages[k].name].content
                     IN /\ pages[k].id = f.id
                        /\ pages[k].title = f.title
                        /\ Len(pages[k].children) = Len(f.content)
                        /\ \A c \in 1..Len(f.content) : pages[k].children[c].name = f.content[c].name
                        /\ Len(pages[k].queries) = Len(f.queries)
                        /\ \A q \in 1..Len(f.queries) : pages[k].queries[q].name = f.queries[q].name

\* a load has returned the tree of a folder in which two page files, both
\* with elements, declare the same id
C22_LoadedDuplicateIds ==
    /\ ValidPageNames = PageNames
    /\ \A n \in PageNames : disk.pages[n].content.id = 1 /\ Len(disk.pages[n].content.content) = 1
    /\ \E i \in OpIds : ops[i].kind = "load" /\ ops[i].pc = "done" /\ Len(ops[i].dom.pages) = 1

\* the number of nodes of a tree: the root, the page nodes with their
\* element and query nodes, the theme node, the code component nodes
RECURSIVE SubtreeSizes(_)
SubtreeSizes(pages) ==
    IF pages = <<>> THEN 0
    ELSE 1 + Len(Head(pages).children) + Len(Head(pages).queries) + SubtreeSizes(Tail(pages))
NodeCount(dom) == 1 + SubtreeSizes(dom.pages) + Len(dom.themes) + Len(dom.codeComponents)

\* the valid page files declare ids that differ
DistinctIds ==
    \A n, m \in ValidPageNames : disk.pages[n].content.id = disk.pages[m].content.id => n = m

\* C23: when the valid page files declare distinct ids, the tree of every
\* load has one page node for each valid page file and no other, with the id
\* the file declares and the name of its folder; with k valid pages that
\* have neither elements nor queries, no component and no theme, the tree
\* has k + 1 nodes.
C23_PageIdentityStable ==
    \A i \in OpIds :
        (ops[i].kind = "load" /\ ops[i].pc = "done" /\ DistinctIds) =>
            LET pages == ops[i].dom.pages
            IN /\ Len(pages) = Cardinality(ValidPageNames)
               /\ \A n \in ValidPageNames :
                     \E k \in 1..Len(pages) :
                        pages[k].name = n /\ pages[k].id = disk.pages[n].content.id
               /\ (/\ \A n \in ValidPageNames : /\ disk.pages[n].content.content = <<>>
                                                /\ disk.pages[n].content.queries = <<>>
                   /\ ~disk.theme.exists
                   /\ \A c \in CompNames : ~disk.comps[c].exists)
                      => NodeCount(ops[i].dom) = Cardinality(ValidPageNames) + 1

\* two loads have returned the same tree of three nodes for a folder of two
\* bare pages with distinct ids
C23_TwoBarePagesLoaded ==
    /\ ValidPageNames = PageNames /\ DistinctIds
    /\ \A n \in PageNames : disk.pages[n].content.content = <<>> /\ disk.pages[n].content.queries = <<>>
    /\ \A i \in 1..2 : ops[i].kind = "load" /\ ops[i].pc = "done" /\ NodeCount(ops[i].dom) = 3
    /\ ops[1].dom = ops[2].dom

\* the names of the component files given to the call that is followed
FileNames == {merged.components[k].name : k \in 1..Len(merged.components)}

\* the result of the call has one code component node for every file, with
\* the code of the file, and no other code component node
UpsertedByName ==
    LET nodes == merged.result.codeComponents
    IN /\ \A c \in 1..Len(merged.components) :
             /\ Cardinality({k \in 1..Len(nodes) : nodes[k].name = merged.components[c].name}) = 1
             /\ \A k \in 1..Len(nodes) :
                   nodes[k].name = merged.components[c].name => nodes[k].code = merged.components[c].code
       /\ \A k \in 1..Len(nodes) : nodes[k].name \in FileNames
       /\ merged.result.pages = merged.dom.pages /\ merged.result.themes = merged.dom.themes

\* no two code component nodes of the tree given to the call have one name
DistinctNodeNames ==
    \A k, m \in 1..Len(merged.dom.codeComponents) :
        merged.dom.codeComponents[k].name = merged.dom.codeComponents[m].name => k = m

C25_FailureIsolated ==
    \A i \in OpIds : (Locked(i) /\ Settled(i)) => ops[i].err # "chain"

\* C26: every change and every externalChange event carries the fingerprint
\* that is in the cache when it is emitted.
C26_EventCarriesCachedFingerprint ==
    [][\A k \in (Len(events) + 1)..Len(events') :
          events'[k].type \in {"change", "externalChange"} =>
              cache'.tag = "value" /\ events'[k].fingerprint = cache'.fp]_vars

\* every call has settled, no write is in flight and the watcher has no
\* event left to process
Quiescent == AllSettled /\ inflight = {} /\ ~dirty

\* C27: in dev mode, whenever every operation has settled and every watcher
\* event has been processed, the cached tree is the tree that loading the
\* project folder as it now is produces (the theme file, which the watcher
\* does not watch, being as it was at the start).
C27_CacheFollowsDisk ==
    (/\ dev /\ started /\ Quiescent
     /\ cache.tag = "value"
     /\ disk.theme = InitDisk.theme
     /\ loadDomFromDisk(disk).ok)
        => cache.dom = loadDomFromDisk(disk).dom

\* the file operations that complete in this step
Completed == inflight \ inflight'

\* C28: a step of the program (not of another program) changes a page file
\* or the theme file that load skips as invalid only by a write of a tree
\* that holds a page of that name, or a theme.
C28_InvalidUnitsKept ==
    [][extCount' = extCount =>
          /\ (disk.theme.exists /\ disk.theme.content.kind = "invalid" /\ disk'.theme # disk.theme)
                => \E w \in Completed : w.target = "theme" /\ w.theme.kind = "theme"
          /\ \A n \in PageNames :
                (disk.pages[n].exists /\ ~pageSchema(disk.pages[n].content)
                    /\ disk'.pages[n] # disk.pages[n])
                    => \E w \in Completed : w.target = "page" /\ w.name = n]_vars

\* C29: as long as no other program has written the project folder, no
\* externalChange event is emitted, and a reconciliation leaves the cache as
\* it finds it.
C29_SaveNotExternalChange ==
    /\ [](extCount = 0 => \A k \in 1..Len(events) : events[k].type # "externalChange")
    /\ [][\A i \in OpIds :
            (extCount' = 0 /\ ops[i].kind = "recon" /\ ops[i].pc # "done" /\ ops'[i].pc = "done"
                /\ cache.tag = "value")
                => cache' = cache]_vars

====
